---- MODULE Spec2Model ----
(***************************************************************************)
(* Model of the music-visualizer renderer process.                         *)
(*                                                                         *)
(*   App.tsx            the player shell: play/pause state, the selected   *)
(*                      visualization, the audio graph refs and the        *)
(*                      requestAnimationFrame render loop.                 *)
(*   visualizations.ts  the registry of 20 renderers, each a pure function *)
(*                      from (snapshot, canvas geometry) to a sequence of  *)
(*                      canvas calls.                                      *)
(*                                                                         *)
(* Spec        the shell as a state machine (user events, display          *)
(*             refreshes).                                                 *)
(* SpecFault   Spec plus display refreshes in which a renderer call raises.*)
(* SpecRender  the renderers as pure functions over bounded inputs.        *)
(***************************************************************************)
EXTENDS Integers, Sequences, FiniteSets, TLC

VARIABLES
    isPlaying,          \* App.tsx:8   useState(false)
    visName,            \* App.tsx:18  useState('rainbowBars')
    audioContextRef,    \* App.tsx:21  TRUE when .current is an AudioContext
    analyserRef,        \* App.tsx:22  TRUE when .current is an AnalyserNode
    animationFrameRef,  \* App.tsx:23  0 for null, else a requestAnimationFrame handle
    pendingFrames,      \* the browser's animation-frame callback list: handle and
                        \* the visName captured by the drawVisualization closure
    nextFrameId,        \* the next handle requestAnimationFrame returns
    contextsCreated,    \* number of `new AudioContext()` evaluations so far
    starts,             \* number of startVisualization() calls so far
    lastRequest,        \* the name last asked of the <select>
    lastStep,           \* what the last handler did (observation only)
    style, data, width, height,   \* SpecRender: the renderer and its inputs
    drawn, calls, reads           \* SpecRender: its output

appVars == <<isPlaying, visName, audioContextRef, analyserRef, animationFrameRef,
             pendingFrames, nextFrameId, contextsCreated, starts, lastRequest,
             lastStep>>
renderVars == <<style, data, width, height, drawn, calls, reads>>
vars == <<appVars, renderVars>>

----------------------------------------------------------------------------
(* Bounds *)

\* requestAnimationFrame handles are handed out up to this one
MaxFrameId == 6

----------------------------------------------------------------------------
(* visualizations.ts: the registry keys *)

RegistryKeys ==
    { "rainbowBars", "monoBars", "radialLines", "radialBars", "circleWave",
      "spiral", "dots", "mirrorBars", "zigZag", "gradientWave", "starBurst",
      "checkerPulse", "lissajous", "orbitals", "polygonPulse", "kaleidoscope",
      "sineWave", "waterfall", "yinYang", "flower" }

\* App.tsx:125-135  the names the user asks the selector for: three registry
\* keys and a name that is no key
Names == {"rainbowBars", "monoBars", "spiral", "doesNotExist"}

----------------------------------------------------------------------------
(* App.tsx *)

\* mutant of SelectOptions: a selector that accepts any name
SelectOptionsAnyName == Names

\* App.tsx:130-134  the <option>s of the selector are Object.keys(visualizations)
SelectOptions == RegistryKeys

\* App.tsx:20,97  the canvas ref is attached whenever a handler or a frame
\* callback runs (React attaches refs in the commit, before effects)
canvasRef == TRUE

\* mutant of NeedsAudioGraph: the graph is rebuilt on every start
NeedsAudioGraphAlways == TRUE

\* App.tsx:58  if (!audioContextRef.current)
NeedsAudioGraph == ~audioContextRef

Idle == [kind |-> "none", invoked |-> <<>>, ran |-> 0, requested |-> 0]

\* App.tsx:57-68 startVisualization, with the drawVisualization() call it ends
\* with (App.tsx:35-52) for the closure that captured `vis`.
startVisualization(vis, kind) ==
    LET build    == NeedsAudioGraph
        analyser == IF build THEN TRUE ELSE analyserRef
        ok       == canvasRef /\ analyser            \* App.tsx:38
    IN  /\ nextFrameId <= MaxFrameId
        /\ audioContextRef' = (IF build THEN TRUE ELSE audioContextRef)
        /\ analyserRef' = analyser
        /\ contextsCreated' = contextsCreated + (IF build THEN 1 ELSE 0)
        /\ starts' = starts + 1
        /\ IF ok
           THEN /\ pendingFrames' = pendingFrames \cup
                                      {[id |-> nextFrameId, vis |-> vis]}
                /\ animationFrameRef' = nextFrameId
                /\ nextFrameId' = nextFrameId + 1
                /\ lastStep' = [kind |-> kind, invoked |-> <<vis>>,
                                ran |-> 0, requested |-> 1]
           ELSE /\ UNCHANGED <<pendingFrames, animationFrameRef, nextFrameId>>
                /\ lastStep' = [kind |-> kind, invoked |-> <<>>,
                                ran |-> 0, requested |-> 0]

\* App.tsx:70-74 stopVisualization: cancels the handle held in animationFrameRef
stopVisualization(kind) ==
    /\ pendingFrames' = IF animationFrameRef # 0
                        THEN {p \in pendingFrames : p.id # animationFrameRef}
                        ELSE pendingFrames
    /\ lastStep' = [kind |-> kind, invoked |-> <<>>, ran |-> 0, requested |-> 0]
    /\ UNCHANGED <<audioContextRef, analyserRef, animationFrameRef, nextFrameId,
                   contextsCreated, starts>>

\* App.tsx:76-84 the effect on [isPlaying, startVisualization, stopVisualization];
\* audioRef.current is attached whenever it runs
PlaybackEffect(playing, vis, kind) ==
    IF playing THEN startVisualization(vis, kind) ELSE stopVisualization(kind)

\* App.tsx:140 the play/pause button, then the effect its re-render triggers
TogglePlay ==
    /\ isPlaying' = ~isPlaying
    /\ PlaybackEffect(~isPlaying, visName, IF isPlaying THEN "pause" ELSE "play")
    /\ UNCHANGED <<visName, lastRequest>>

\* App.tsx:125-135 the selector. A name that is no <option> cannot be chosen and
\* the current value raises no change event; otherwise onChange sets visName,
\* drawVisualization and startVisualization get new identities (App.tsx:52,68)
\* and the effect runs again with the new closures.
SelectVisualization(n) ==
    /\ lastRequest' = n
    /\ IF n \in SelectOptions /\ n # visName
       THEN /\ visName' = n
            /\ PlaybackEffect(isPlaying, n, "select")
            /\ UNCHANGED isPlaying
       ELSE /\ lastStep' = [kind |-> "nochange", invoked |-> <<>>,
                            ran |-> 0, requested |-> 0]
            /\ UNCHANGED <<isPlaying, visName, audioContextRef, analyserRef,
                           animationFrameRef, pendingFrames, nextFrameId,
                           contextsCreated, starts>>

\* position of callback p in the order the browser runs the callbacks of `ps`
Rank(p, ps) == Cardinality({q \in ps : q.id < p.id})

\* the callbacks of `ps` in handle order
RECURSIVE InOrder(_)
InOrder(ps) ==
    IF ps = {} THEN <<>>
    ELSE LET p == CHOOSE q \in ps : \A r \in ps : q.id <= r.id
         IN  <<p>> \o InOrder(ps \ {p})

\* One display refresh: the browser runs every callback of its list, in handle
\* order. Each is drawVisualization (App.tsx:35-52) of the closure that
\* requested it: it returns at once without canvas or analyser (App.tsx:38),
\* else invokes visualizations[vis] (App.tsx:49) and then requests the next
\* frame for the same closure (App.tsx:51). The callbacks in `thrown` raise in
\* the renderer call, so App.tsx:51 is not reached for them.
Refresh(thrown) ==
    LET ran      == pendingFrames
        ok       == canvasRef /\ analyserRef
        invoked  == IF ok THEN ran ELSE {}
        again    == invoked \ thrown
        n        == Cardinality(again)
    IN  /\ ran # {}
        /\ nextFrameId + n - 1 <= MaxFrameId
        /\ pendingFrames' = {[id |-> nextFrameId + Rank(p, again), vis |-> p.vis]
                                : p \in again}
        /\ animationFrameRef' = IF n > 0 THEN nextFrameId + n - 1
                                ELSE animationFrameRef
        /\ nextFrameId' = nextFrameId + n
        /\ lastStep' = [kind |-> "refresh",
                        invoked |-> [i \in 1..Cardinality(invoked) |->
                                        InOrder(invoked)[i].vis],
                        ran |-> Cardinality(ran), requested |-> n]
        /\ UNCHANGED <<isPlaying, visName, audioContextRef, analyserRef,
                       contextsCreated, starts, lastRequest>>

DisplayRefresh == Refresh({})

\* a display refresh in which at least one renderer call raises
FaultyRefresh ==
    \E thrown \in (SUBSET pendingFrames) \ {{}} : Refresh(thrown)

----------------------------------------------------------------------------
(* visualizations.ts: numbers                                              *)
(*                                                                         *)
(* Canvas coordinates, sizes and angles are JavaScript doubles. They are   *)
(* modelled in thousandths (of a pixel, of a radian), rounded down: a      *)
(* width of 256 is 256000, Math.PI is 3142. Integer pixel arithmetic is    *)
(* exact in this representation.                                           *)

Milli == 10 * 10 * 10

\* Math.PI, Math.PI * 2 and Math.PI / 2 in thousandths of a radian
PiMilli == 3142
TwoPiMilli == 6283
HalfPiMilli == 1571

Min(a, b) == IF a <= b THEN a ELSE b

\* sin x for 0 <= x <= pi/2, by its Taylor polynomial up to x^9
SinQuadrant(x) ==
    LET x2 == (x * x) \div Milli
        t3 == (x * x2) \div (6 * Milli)
        t5 == (t3 * x2) \div (20 * Milli)
        t7 == (t5 * x2) \div (42 * Milli)
        t9 == (t7 * x2) \div (72 * Milli)
    IN  Min(Milli, x - t3 + t5 - t7 + t9)

\* Math.sin
SinMilli(a) ==
    LET r == a % TwoPiMilli
    IN  IF r <= HalfPiMilli THEN SinQuadrant(r)
        ELSE IF r <= PiMilli THEN SinQuadrant(PiMilli - r)
        ELSE IF r <= PiMilli + HalfPiMilli THEN 0 - SinQuadrant(r - PiMilli)
        ELSE 0 - SinQuadrant(TwoPiMilli - r)

\* Math.cos
CosMilli(a) == SinMilli(a + HalfPiMilli)

\* a * b for two numbers in thousandths
Mul(a, b) == (a * b) \div Milli

----------------------------------------------------------------------------
(* visualizations.ts: canvas calls                                         *)
(*                                                                         *)
(* A renderer's output is the sequence of method calls it makes on the 2D  *)
(* context. Assignments to fillStyle, strokeStyle and                      *)
(* globalCompositeOperation are property writes, not calls, and are left   *)
(* out, as are the addColorStop calls on a gradient object.                *)

\* a call with finite arguments
Call(op, args) == [op |-> op, args |-> args, finite |-> TRUE]

\* a call with a NaN argument (the canvas ignores it)
NaNCall(op) == [op |-> op, args |-> <<>>, finite |-> FALSE]

\* the calls of a loop, iteration after iteration: data.forEach((v, i) => body)
\* is Flat([k \in 1..Len(d) |-> Body(d[k], k - 1)]), and
\* for (let i = 0; i < n; i++) body is Flat([k \in 1..n |-> Body(k - 1)])
RECURSIVE Flat(_)
Flat(ss) == IF ss = <<>> THEN <<>> ELSE Head(ss) \o Flat(Tail(ss))

\* if (i === 0) ctx.moveTo(x, y) else ctx.lineTo(x, y)
PathPoint(i, x, y) ==
    IF i = 0 THEN <<Call("moveTo", <<x, y>>)>> ELSE <<Call("lineTo", <<x, y>>)>>

\* mutant of BarRect: the bar hangs from the top edge
BarRectFromTop(i, v, barWidth, h) ==
    Call("fillRect", <<i * barWidth, v * Milli, barWidth - Milli, v * Milli>>)

\* visualizations.ts:18,26
\* ctx.fillRect(i * barWidth, canvas.height - value, barWidth - 1, value)
BarRect(i, v, barWidth, h) ==
    Call("fillRect", <<i * barWidth, (h - v) * Milli, barWidth - Milli, v * Milli>>)

\* visualizations.ts:13-20
rainbowBars(d, w, h) ==
    LET barWidth == (w * Milli) \div Len(d)
        Body(v, i) == <<BarRect(i, v, barWidth, h)>>
    IN  Flat([k \in 1..Len(d) |-> Body(d[k], k - 1)])

\* visualizations.ts:22-28
monoBars(d, w, h) ==
    LET barWidth == (w * Milli) \div Len(d)
        Body(v, i) == <<BarRect(i, v, barWidth, h)>>
    IN  Flat([k \in 1..Len(d) |-> Body(d[k], k - 1)])

\* visualizations.ts:30-45
radialLines(d, w, h) ==
    LET cx == (w * Milli) \div 2
        cy == (h * Milli) \div 2
        r  == Min(cx, cy) \div 2
        step == TwoPiMilli \div Len(d)
        Body(v, i) ==
            LET angle == i * step
                x == cx + Mul(CosMilli(angle), r + v * Milli)
                y == cy + Mul(SinMilli(angle), r + v * Milli)
            IN  <<Call("beginPath", <<>>), Call("moveTo", <<cx, cy>>),
                  Call("lineTo", <<x, y>>), Call("stroke", <<>>)>>
    IN  Flat([k \in 1..Len(d) |-> Body(d[k], k - 1)])

\* visualizations.ts:47-64
radialBars(d, w, h) ==
    LET cx == (w * Milli) \div 2
        cy == (h * Milli) \div 2
        base == Min(cx, cy) \div 4
        step == TwoPiMilli \div Len(d)
        Body(v, i) ==
            LET angle == i * step
                bh == v * (Milli \div 2)
                x == cx + Mul(CosMilli(angle), base)
                y == cy + Mul(SinMilli(angle), base)
            IN  <<Call("save", <<>>), Call("translate", <<x, y>>),
                  Call("rotate", <<angle>>),
                  Call("fillRect", <<0, 0, 2 * Milli, bh>>),
                  Call("restore", <<>>)>>
    IN  Flat([k \in 1..Len(d) |-> Body(d[k], k - 1)])

\* visualizations.ts:66-82
circleWave(d, w, h) ==
    LET cx == (w * Milli) \div 2
        cy == (h * Milli) \div 2
        radius == Min(cx, cy) \div 2
        Body(v, i) ==
            LET angle == (i * TwoPiMilli) \div Len(d)
                r == radius + (v * Milli) \div 2
            IN  PathPoint(i, cx + Mul(CosMilli(angle), r),
                             cy + Mul(SinMilli(angle), r))
    IN  <<Call("beginPath", <<>>)>> \o Flat([k \in 1..Len(d) |-> Body(d[k], k - 1)])
          \o <<Call("closePath", <<>>), Call("stroke", <<>>)>>

\* visualizations.ts:84-98
spiral(d, w, h) ==
    LET cx == (w * Milli) \div 2
        cy == (h * Milli) \div 2
        Body(v, i) ==
            LET angle == i * (Milli \div 10)
                r == i * (Milli \div 2) + v * ((3 * Milli) \div 10)
            IN  PathPoint(i, cx + Mul(CosMilli(angle), r),
                             cy + Mul(SinMilli(angle), r))
    IN  <<Call("beginPath", <<>>)>>
          \o Flat([k \in 1..Len(d) |-> Body(d[k], k - 1)])
          \o <<Call("stroke", <<>>)>>

\* visualizations.ts:100-109
dots(d, w, h) ==
    LET step == (w * Milli) \div Len(d)
        Body(v, i) ==
            LET size == (v * Milli) \div 5
            IN  <<Call("beginPath", <<>>),
                  Call("arc", <<i * step, (h - v) * Milli, size, 0, TwoPiMilli>>),
                  Call("fill", <<>>)>>
    IN  Flat([k \in 1..Len(d) |-> Body(d[k], k - 1)])

\* visualizations.ts:111-118
mirrorBars(d, w, h) ==
    LET barWidth == (w * Milli) \div Len(d)
        mid == (h * Milli) \div 2
        Body(v, i) ==
            <<Call("fillRect", <<i * barWidth, mid, barWidth - Milli, 0 - v * Milli>>),
              Call("fillRect", <<i * barWidth, mid, barWidth - Milli, v * Milli>>)>>
    IN  Flat([k \in 1..Len(d) |-> Body(d[k], k - 1)])

\* visualizations.ts:120-131
zigZag(d, w, h) ==
    LET step == (w * Milli) \div Len(d)
        Body(v, i) == PathPoint(i, i * step, (h - v) * Milli)
    IN  <<Call("beginPath", <<>>)>>
          \o Flat([k \in 1..Len(d) |-> Body(d[k], k - 1)])
          \o <<Call("stroke", <<>>)>>

\* visualizations.ts:133-147
gradientWave(d, w, h) ==
    LET step == (w * Milli) \div Len(d)
        Body(v, i) == PathPoint(i, i * step, (h - v) * Milli)
    IN  <<Call("createLinearGradient", <<0, 0, w * Milli, 0>>),
          Call("beginPath", <<>>)>>
          \o Flat([k \in 1..Len(d) |-> Body(d[k], k - 1)]) \o <<Call("stroke", <<>>)>>

\* visualizations.ts:149-162
starBurst(d, w, h) ==
    LET cx == (w * Milli) \div 2
        cy == (h * Milli) \div 2
        Body(v, i) ==
            LET angle == (i * TwoPiMilli) \div Len(d)
                x == cx + CosMilli(angle) * v
                y == cy + SinMilli(angle) * v
            IN  <<Call("beginPath", <<>>), Call("moveTo", <<cx, cy>>),
                  Call("lineTo", <<x, y>>), Call("stroke", <<>>)>>
    IN  Flat([k \in 1..Len(d) |-> Body(d[k], k - 1)])

\* visualizations.ts:165  const size = 20
size == 20

\* mutant of CheckerIndex: the index is taken at the right edge of the cell
CheckerIndexRightEdge(x, w, n) == ((x + size) * n) \div w

\* visualizations.ts:168  Math.floor((x / canvas.width) * data.length), as the
\* floor of the exact quotient x * n / w
CheckerIndex(x, w, n) == (x * n) \div w

\* visualizations.ts:166-167 the number of values x = 0, size, 2 size, ... below extent
GridSteps(extent) == (extent + size - 1) \div size

\* visualizations.ts:164-174
checkerPulse(d, w, h) ==
    LET Cell(gx, gy) ==
            <<Call("fillRect", <<gx * size * Milli, gy * size * Milli,
                                 size * Milli, size * Milli>>)>>
        Column(gx) ==
            LET Row(gy) == Cell(gx, gy)
            IN  Flat([k \in 1..GridSteps(h) |-> Row(k - 1)])
    IN  Flat([k \in 1..GridSteps(w) |-> Column(k - 1)])

\* visualizations.ts:168-169 the indices checkerPulse reads, one per cell
checkerPulseReads(d, w, h) ==
    LET Column(gx) ==
            LET Row(gy) == <<CheckerIndex(gx * size, w, Len(d))>>
            IN  Flat([k \in 1..GridSteps(h) |-> Row(k - 1)])
    IN  Flat([k \in 1..GridSteps(w) |-> Column(k - 1)])

\* visualizations.ts:176-191
lissajous(d, w, h) ==
    LET cx == (w * Milli) \div 2
        cy == (h * Milli) \div 2
        a == 3
        b == 2
        Body(v, i) ==
            LET t == (i * TwoPiMilli) \div Len(d)
                x == cx + Mul(SinMilli(a * t + (v * Milli) \div 50), (cx * 8) \div 10)
                y == cy + Mul(SinMilli(b * t), (cy * 8) \div 10)
            IN  PathPoint(i, x, y)
    IN  <<Call("beginPath", <<>>)>>
          \o Flat([k \in 1..Len(d) |-> Body(d[k], k - 1)])
          \o <<Call("stroke", <<>>)>>

\* visualizations.ts:193-206
orbitals(d, w, h) ==
    LET cx == (w * Milli) \div 2
        cy == (h * Milli) \div 2
        Body(v, i) ==
            LET angle == (i * TwoPiMilli) \div Len(d)
                r == 50 * Milli + (v * Milli) \div 4
                x == cx + Mul(CosMilli(angle), r)
                y == cy + Mul(SinMilli(angle), r)
            IN  <<Call("beginPath", <<>>),
                  Call("arc", <<x, y, 2 * Milli, 0, TwoPiMilli>>),
                  Call("stroke", <<>>)>>
    IN  Flat([k \in 1..Len(d) |-> Body(d[k], k - 1)])

\* visualizations.ts:211  const sides = 6
sides == 6

\* visualizations.ts:215  Math.floor((i / sides) * data.length)
PolygonIndex(i, n) == (i * n) \div sides

\* visualizations.ts:208-226; on an empty snapshot data[0] is undefined and
\* every vertex is NaN
polygonPulse(d, w, h) ==
    LET cx == (w * Milli) \div 2
        cy == (h * Milli) \div 2
        radius == Min(cx, cy) \div 2
        Vertex(i) ==
            IF Len(d) = 0
            THEN <<NaNCall(IF i = 0 THEN "moveTo" ELSE "lineTo")>>
            ELSE LET v == d[PolygonIndex(i, Len(d)) + 1]
                     angle == (i * TwoPiMilli) \div sides
                     r == radius + (v * Milli) \div 4
                 IN  PathPoint(i, cx + Mul(CosMilli(angle), r),
                                  cy + Mul(SinMilli(angle), r))
    IN  <<Call("beginPath", <<>>)>> \o Flat([k \in 1..sides |-> Vertex(k - 1)])
          \o <<Call("closePath", <<>>), Call("stroke", <<>>)>>

\* visualizations.ts:215 the indices polygonPulse reads, one per vertex
polygonPulseReads(d) == [k \in 1..sides |-> PolygonIndex(k - 1, Len(d))]

\* visualizations.ts:228-237
kaleidoscope(d, w, h) ==
    LET step == (w * Milli) \div Len(d)
        Body(v, i) ==
            LET x == i * step
                y == (h - v) * Milli
            IN  <<Call("fillRect", <<x, y, 4 * Milli, v * Milli>>),
                  Call("fillRect", <<w * Milli - x, y, 4 * Milli, v * Milli>>)>>
    IN  Flat([k \in 1..Len(d) |-> Body(d[k], k - 1)])

\* visualizations.ts:239-250
sineWave(d, w, h) ==
    LET step == (w * Milli) \div Len(d)
        Body(v, i) ==
            PathPoint(i, i * step,
                      (h * Milli) \div 2 + SinMilli(i * (Milli \div 10)) * v)
    IN  <<Call("beginPath", <<>>)>>
          \o Flat([k \in 1..Len(d) |-> Body(d[k], k - 1)])
          \o <<Call("stroke", <<>>)>>

\* visualizations.ts:252-260
waterfall(d, w, h) ==
    LET barWidth == (w * Milli) \div Len(d)
        Body(v, i) == <<Call("fillRect", <<i * barWidth, 0, barWidth, h * Milli>>)>>
    IN  Flat([k \in 1..Len(d) |-> Body(d[k], k - 1)])

\* visualizations.ts:262-271; on an empty snapshot data[0] is undefined and
\* both angles are NaN
yinYang(d, w, h) ==
    LET cx == (w * Milli) \div 2
        cy == (h * Milli) \div 2
        radius == (Min(cx, cy) * 8) \div 10
        sweep == (d[1] * PiMilli) \div 255
    IN  <<Call("beginPath", <<>>),
          IF Len(d) = 0 THEN NaNCall("arc")
          ELSE Call("arc", <<cx, cy, radius,
                             HalfPiMilli - sweep, HalfPiMilli + sweep>>),
          Call("stroke", <<>>)>>

\* visualizations.ts:276  const petals = 8
petals == 8

\* visualizations.ts:273-296
flower(d, w, h) ==
    LET cx == (w * Milli) \div 2
        cy == (h * Milli) \div 2
        radius == Min(cx, cy) \div 2
        Body(v, i) ==
            LET angle == (i * TwoPiMilli) \div Len(d)
                r == radius + (v * Milli) \div 5
            IN  <<Call("fillRect", <<cx + Mul(CosMilli(angle), r),
                                     cy + Mul(SinMilli(angle), r),
                                     2 * Milli, 2 * Milli>>)>>
        Petal(i) ==
            LET angle == (i * TwoPiMilli) \div petals
            IN  <<Call("moveTo", <<cx, cy>>),
                  Call("lineTo", <<cx + Mul(CosMilli(angle), radius),
                                   cy + Mul(SinMilli(angle), radius)>>)>>
    IN  Flat([k \in 1..Len(d) |-> Body(d[k], k - 1)])
          \o <<Call("beginPath", <<>>)>>
          \o Flat([k \in 1..petals |-> Petal(k - 1)])
          \o <<Call("stroke", <<>>)>>

\* visualizations.ts:11-297, App.tsx:49  visualizations[name](ctx, data, canvas)
Render(name, d, w, h) ==
    CASE name = "rainbowBars"  -> rainbowBars(d, w, h)
      [] name = "monoBars"     -> monoBars(d, w, h)
      [] name = "radialLines"  -> radialLines(d, w, h)
      [] name = "radialBars"   -> radialBars(d, w, h)
      [] name = "circleWave"   -> circleWave(d, w, h)
      [] name = "spiral"       -> spiral(d, w, h)
      [] name = "dots"         -> dots(d, w, h)
      [] name = "mirrorBars"   -> mirrorBars(d, w, h)
      [] name = "zigZag"       -> zigZag(d, w, h)
      [] name = "gradientWave" -> gradientWave(d, w, h)
      [] name = "starBurst"    -> starBurst(d, w, h)
      [] name = "checkerPulse" -> checkerPulse(d, w, h)
      [] name = "lissajous"    -> lissajous(d, w, h)
      [] name = "orbitals"     -> orbitals(d, w, h)
      [] name = "polygonPulse" -> polygonPulse(d, w, h)
      [] name = "kaleidoscope" -> kaleidoscope(d, w, h)
      [] name = "sineWave"     -> sineWave(d, w, h)
      [] name = "waterfall"    -> waterfall(d, w, h)
      [] name = "yinYang"      -> yinYang(d, w, h)
      [] name = "flower"       -> flower(d, w, h)

\* the snapshot indices a renderer reads, in order: the grid renderers by a
\* proportional index, yinYang data[0], every other one each bin by forEach
Reads(name, d, w, h) ==
    CASE name = "checkerPulse" -> checkerPulseReads(d, w, h)
      [] name = "polygonPulse" -> polygonPulseReads(d)
      [] name = "yinYang"      -> <<0>>
      [] OTHER                 -> [k \in 1..Len(d) |-> k - 1]

----------------------------------------------------------------------------
(* The renderers as pure functions: inputs drawn from bounded sets *)

\* snapshots have at most this many bins
MaxBins == 3

\* magnitudes used in the snapshots (a bin is an unsigned byte)
SampleValues == {0, 50, 255}

\* the 8-bin snapshot of the bars scenario
ScenarioSnapshot == <<0, 50, 100, 150, 200, 250, 255, 10>>

Snapshots ==
    UNION {[1..n -> SampleValues] : n \in 0..MaxBins} \cup {ScenarioSnapshot}

\* canvas width and height in pixels
Geometries == {<<256, 100>>, <<100, 100>>, <<60, 40>>}

RenderInit ==
    /\ style \in RegistryKeys
    /\ data \in Snapshots
    /\ \E g \in Geometries : width = g[1] /\ height = g[2]
    /\ drawn = FALSE
    /\ calls = <<>>
    /\ reads = <<>>

\* one call of the selected renderer (App.tsx:49)
Draw ==
    /\ ~drawn
    /\ drawn' = TRUE
    /\ calls' = Render(style, data, width, height)
    /\ reads' = Reads(style, data, width, height)
    /\ UNCHANGED <<style, data, width, height>>

----------------------------------------------------------------------------
(* Specifications *)

AppInit ==
    /\ isPlaying = FALSE
    /\ visName = "rainbowBars"
    /\ audioContextRef = FALSE
    /\ analyserRef = FALSE
    /\ animationFrameRef = 0
    /\ pendingFrames = {}
    /\ nextFrameId = 1
    /\ contextsCreated = 0
    /\ starts = 0
    /\ lastRequest = "rainbowBars"
    /\ lastStep = Idle

RenderIdle ==
    /\ style = "rainbowBars"
    /\ data = <<>>
    /\ width = 0
    /\ height = 0
    /\ drawn = FALSE
    /\ calls = <<>>
    /\ reads = <<>>

Init == AppInit /\ RenderIdle

Next ==
    \/ TogglePlay /\ UNCHANGED renderVars
    \/ (\E n \in Names : SelectVisualization(n)) /\ UNCHANGED renderVars
    \/ DisplayRefresh /\ UNCHANGED renderVars

Spec == Init /\ [][Next]_vars

NextFault ==
    \/ Next
    \/ FaultyRefresh /\ UNCHANGED renderVars

SpecFault == Init /\ [][NextFault]_vars

InitRender == AppInit /\ RenderInit

NextRender == Draw /\ UNCHANGED appVars

SpecRender == InitRender /\ [][NextRender]_vars

----------------------------------------------------------------------------
(* Claims about the shell (Spec, SpecFault) *)

\* C1: pausing stops the render loop: whenever playback is paused, no frame
\* callback is pending and the last handler invoked no renderer.
PauseStopsRenderLoop ==
    ~isPlaying => (pendingFrames = {} /\ lastStep.invoked = <<>>)

\* C2: there is a single render loop: at most one frame callback is pending
\* in every state, and a display refresh invokes exactly one renderer.
SingleRenderLoop ==
    /\ Cardinality(pendingFrames) <= 1
    /\ lastStep.kind = "refresh" => Len(lastStep.invoked) = 1

\* C3: every frame is rendered with the currently selected visualization:
\* each renderer a handler invokes is the one registered under visName.
RendersSelectedVisualization ==
    \A i \in 1..Len(lastStep.invoked) : lastStep.invoked[i] = visName

\* C4: the render loop survives a single-frame failure: every frame callback
\* that runs while playing requests the next frame, whether its renderer
\* returned or raised.
LoopSurvivesFrameFailure ==
    (lastStep.kind = "refresh" /\ isPlaying) => lastStep.requested = lastStep.ran

\* C6: unknown names are rejected at selection: the selected name, the name
\* every pending closure captured and every renderer looked up are keys of the
\* registry, and a step after which the last requested name is no key leaves
\* the selection unchanged.
UnknownNamesRejected ==
    /\ [](/\ visName \in RegistryKeys
          /\ \A p \in pendingFrames : p.vis \in RegistryKeys
          /\ \A i \in 1..Len(lastStep.invoked) : lastStep.invoked[i] \in RegistryKeys)
    /\ [][lastRequest' \notin RegistryKeys => visName' = visName]_vars

\* C6 witness: the unknown name was asked for, the selection had been changed
\* before, and a display refresh has since looked up a renderer.
UnknownRequestedThenRendered ==
    /\ lastRequest = "doesNotExist"
    /\ visName # "rainbowBars"
    /\ lastStep.kind = "refresh"
    /\ lastStep.invoked # <<>>

\* C10: the audio graph is built at most once: one AudioContext however many
\* times startVisualization ran, context and analyser set together by the
\* first start, and no renderer invoked while the analyser is unset.
AudioGraphBuiltOnce ==
    /\ contextsCreated <= 1
    /\ starts > 0 => contextsCreated = 1
    /\ audioContextRef <=> contextsCreated = 1
    /\ analyserRef <=> audioContextRef
    /\ lastStep.invoked # <<>> => analyserRef

\* C10 witness: a third start renders with the graph the first start built.
RestartReusesGraph ==
    /\ starts >= 3
    /\ contextsCreated = 1
    /\ lastStep.kind = "play"
    /\ lastStep.invoked # <<>>

----------------------------------------------------------------------------
(* Claims about the renderers (SpecRender) *)

\* C5: for every renderer, a zero-length snapshot produces no canvas call.
ZeroLengthSnapshotDrawsNothing ==
    (drawn /\ data = <<>>) => calls = <<>>

\* C7: on a snapshot of N bins with N dividing the width W, the bars styles
\* make exactly one fillRect per bin, in bin order, at x = i * (W / N),
\* y = H - v, of width W / N - 1 and height v.
BarsOneRectPerBin ==
    (/\ drawn
     /\ style \in {"rainbowBars", "monoBars"}
     /\ Len(data) > 0
     /\ width % Len(data) = 0)
    => LET n  == Len(data)
           bw == width \div n
       IN  /\ Len(calls) = n
           /\ \A i \in 0..(n - 1) :
                calls[i + 1] =
                    [op |-> "fillRect", finite |-> TRUE,
                     args |-> <<i * bw * Milli, (height - data[i + 1]) * Milli,
                                (bw - 1) * Milli, data[i + 1] * Milli>>]

\* C7 witness: the 8-bin scenario on 256 x 100, drawn by rainbowBars, the last
\* bar at x = 224 with width 31 and height 10.
BarsScenarioDrawn ==
    /\ drawn
    /\ style = "rainbowBars"
    /\ data = ScenarioSnapshot
    /\ width = 256 /\ height = 100
    /\ Len(calls) = 8
    /\ calls[8].args = <<224 * Milli, 90 * Milli, 31 * Milli, 10 * Milli>>

\* the calls whose first two arguments are a position on the surface
Positioned(c) ==
    c.finite /\ c.op \in {"fillRect", "moveTo", "lineTo", "arc", "translate"}

\* C8: for every renderer, an all-zero snapshot produces only calls positioned
\* within [0, width] x [0, height].
AllZeroStaysInBounds ==
    (drawn /\ \A k \in 1..Len(data) : data[k] = 0)
    => \A k \in 1..Len(calls) :
         Positioned(calls[k]) =>
            /\ 0 <= calls[k].args[1] /\ calls[k].args[1] <= width * Milli
            /\ 0 <= calls[k].args[2] /\ calls[k].args[2] <= height * Milli

\* the grid origins 0, size, 2 size, ... below extent
GridOrigins(extent) == {x \in 0..(extent - 1) : x % size = 0}

\* C9: on a snapshot of N > 0 bins, checkerPulse reads once per grid cell, at
\* index floor(x / width * N) of the cell's column x, and polygonPulse reads
\* once per vertex i, at index floor(i / 6 * N); every index read is in 0..N-1.
GridReadsInRange ==
    (drawn /\ Len(data) > 0)
    => LET n    == Len(data)
           rows == Cardinality(GridOrigins(height))
       IN  /\ style = "checkerPulse" =>
                /\ Len(reads) = Cardinality(GridOrigins(width)) * rows
                /\ Len(reads) = Len(calls)
                /\ \A k \in 1..Len(reads) :
                     /\ reads[k] \in 0..(n - 1)
                     /\ LET x == size * ((k - 1) \div rows)
                        IN  /\ reads[k] * width <= x * n
                            /\ x * n < (reads[k] + 1) * width
           /\ style = "polygonPulse" =>
                /\ Len(reads) = 6
                /\ \A i \in 0..5 :
                     /\ reads[i + 1] \in 0..(n - 1)
                     /\ reads[i + 1] * 6 <= i * n
                     /\ i * n < (reads[i + 1] + 1) * 6

\* C9 witness: checkerPulse drew a grid of several columns over a snapshot of
\* several bins and read its last bin.
CheckerReadLastBin ==
    /\ drawn
    /\ style = "checkerPulse"
    /\ Len(data) >= 2
    /\ \E k \in 1..Len(reads) : reads[k] = Len(data) - 1 /\ k > 1

====
